---- MODULE Spec2Model ----
(***************************************************************************)
(* The population-based Poisson scan statistic kernel PBPOIabstract        *)
(* (src/src/PBPOIabstract.h): the score of one zone/duration candidate,    *)
(* the three storage functions behind the `store` member pointer, and the  *)
(* life cycle that the USTscan base class drives (observed pass, then the  *)
(* Monte Carlo rounds).                                                    *)
(*                                                                         *)
(* Indices are 0-based as in the C++ code.  A matrix is a function         *)
(* [row -> [column -> value]], rows being time steps and columns           *)
(* locations (m_counts.submat(row_idx, current_zone)).                     *)
(*                                                                         *)
(* Doubles.  A baseline is a rational with the fixed denominator BaseDen,  *)
(* held as its numerator.  A relative risk is an exact rational            *)
(* [cls, n, d] in lowest terms; a score is [cls, v] with v in units of     *)
(* 10^-6 (std::log is the fixed-point table LnTab).  cls tells the IEEE    *)
(* class apart: "fin", "ninf", "pinf", "nan", and "huge" for the finite    *)
(* but astronomically large values that only a wrapped unsigned            *)
(* difference produces.                                                    *)
(*                                                                         *)
(* m_baselines_orig is kept for the subclasses' simulate_counts only and   *)
(* is read by nothing here; it is left out of the state.                   *)
(***************************************************************************)
EXTENDS Integers, Sequences, FiniteSets, TLC

\* ---------------------------------------------------------------- bounds
\* Largest raw count of one cell of the counts matrix.
MaxCount == 1
\* Baselines are multiples of 1/BaseDen.
BaseDen == 2

\* The input shape: two locations (columns), two time steps (rows).
Locations == {0, 1}
Rows == {0, 1}
\* The Monte Carlo rounds, num_mcsim of them.
Rounds == {0, 1}
\* Numerators of the raw baseline cells, all positive (the caller's guarantee).
BaseNums == {1, 2, 3}
\* The zone catalog that the iteration engine walks, in its order.
Zones == << {0}, {1}, {0, 1} >>

m_num_zones == Len(Zones)
m_max_dur == Cardinality(Rows)
m_num_mcsim == Cardinality(Rounds)
NumCand == m_num_zones * m_max_dur
LastRow == m_max_dur - 1

\* ------------------------------------------------------------ arithmetic
RECURSIVE SumSet(_, _)
SumSet(f, S) ==
  IF S = {} THEN 0
  ELSE LET x == CHOOSE y \in S : TRUE IN f[x] + SumSet(f, S \ {x})

RECURSIVE GCD(_, _)
GCD(a, b) == IF b = 0 THEN a ELSE GCD(b, a % b)

\* arma::accu of a whole matrix.
accu(M) == SumSet([r \in DOMAIN M |-> SumSet(M[r], DOMAIN M[r])], DOMAIN M)

\* arma::accu(M.submat(row_idx, current_zone)) for the single row row_idx.
accu_submat(M, row_idx, current_zone) == SumSet(M[row_idx], current_zone)

\* A plausible slip: the cumulative sum is never taken.
cumsum_identity(M) == M

\* arma::cumsum of a matrix: running sums down each column.
cumsum(M) ==
  [r \in DOMAIN M |-> [c \in DOMAIN M[r] |->
      SumSet([k \in DOMAIN M |-> M[k][c]], {k \in DOMAIN M : k <= r})]]

\* A plausible slip: only the first time step is totalled.
total_first_row(counts) == SumSet(counts[0], DOMAIN counts[0])

\* m_total_count = arma::accu(counts).
total_count(counts) == accu(counts)

\* int minus arma::uword, carried out in unsigned arithmetic modulo 2^w:
\* [wrap |-> FALSE, v |-> a - c] is the value a - c, and
\* [wrap |-> TRUE, v |-> c - a] is the wrapped value 2^w - (c - a).
usub(a, c) ==
  IF a >= c THEN [wrap |-> FALSE, v |-> a - c]
  ELSE [wrap |-> TRUE, v |-> c - a]

\* --------------------------------------------------------------- doubles
NegInf == [cls |-> "ninf", v |-> 0]
PosInf == [cls |-> "pinf", v |-> 0]
NaN == [cls |-> "nan", v |-> 0]
Fin(x) == [cls |-> "fin", v |-> x]
Huge(x) == [cls |-> "huge", v |-> x]

RatNaN == [cls |-> "nan", n |-> 0, d |-> 1]
RatInf == [cls |-> "pinf", n |-> 0, d |-> 1]
Rat(n, d) ==
  LET g == GCD(n, d) IN [cls |-> "fin", n |-> n \div g, d |-> d \div g]
RatOne == Rat(1, 1)
RatZero == Rat(0, 1)

\* n / b for an integer n >= 0 and a double b >= 0 of numerator bn (b is
\* bn / BaseDen): a zero divisor gives NaN or +inf.
ddiv(n, bn) ==
  IF bn = 0 THEN (IF n = 0 THEN RatNaN ELSE RatInf) ELSE Rat(n * BaseDen, bn)

\* An unsigned value over a positive double of numerator bn: a wrapped
\* dividend gives a huge quotient, the larger the smaller the divisor.
udiv(u, bn) ==
  IF u.wrap THEN [cls |-> "huge", n |-> 0 - bn, d |-> 1] ELSE ddiv(u.v, bn)

\* round(10^6 * ln n) for n = 1 .. 40.
LnTab ==
  << 0, 693147, 1098612, 1386294, 1609438, 1791759, 1945910, 2079442,
     2197225, 2302585, 2397895, 2484907, 2564949, 2639057, 2708050, 2772589,
     2833213, 2890372, 2944439, 2995732, 3044522, 3091042, 3135494, 3178054,
     3218876, 3258097, 3295837, 3332205, 3367296, 3401197, 3433987, 3465736,
     3496508, 3526361, 3555348, 3583519, 3610918, 3637586, 3663562, 3688879 >>

RECURSIVE Ln(_)
Ln(n) == IF n <= Len(LnTab) THEN LnTab[n] ELSE Ln(n \div 2) + LnTab[2]

\* std::log of a relative risk.
log(r) ==
  CASE r.cls = "nan" -> NaN
    [] r.cls = "pinf" -> PosInf
    [] r.cls = "huge" -> Huge(r.n)
    [] OTHER -> IF r.n = 0 THEN NegInf ELSE Fin(Ln(r.n) - Ln(r.d))

\* An unsigned integer times a double.
umul(u, x) ==
  CASE x.cls = "nan" -> NaN
    [] x.cls \in {"ninf", "pinf"} -> IF (~u.wrap) /\ u.v = 0 THEN NaN ELSE x
    [] x.cls = "huge" -> IF (~u.wrap) /\ u.v = 0 THEN Fin(0) ELSE x
    [] OTHER -> IF u.wrap
                THEN (IF x.v = 0 THEN Fin(0) ELSE Huge(x.v))
                ELSE Fin(u.v * x.v)

\* The sum of two doubles.
dadd(a, b) ==
  CASE a.cls = "nan" \/ b.cls = "nan" -> NaN
    [] a.cls = "ninf" -> IF b.cls = "pinf" THEN NaN ELSE NegInf
    [] a.cls = "pinf" -> IF b.cls = "ninf" THEN NaN ELSE PosInf
    [] b.cls \in {"ninf", "pinf"} -> b
    [] b.cls = "huge" -> b
    [] a.cls = "huge" -> a
    [] OTHER -> Fin(a.v + b.v)

Rank(a) ==
  CASE a.cls = "ninf" -> 0
    [] a.cls = "fin" -> 1
    [] a.cls = "huge" -> 2
    [] OTHER -> 3

\* A plausible slip: >= where the code has >.
dge(a, b) ==
  /\ a.cls # "nan"
  /\ b.cls # "nan"
  /\ \/ Rank(a) > Rank(b)
     \/ Rank(a) = Rank(b) /\ a.v >= b.v

\* a > b on doubles: false whenever either side is NaN.
dgt(a, b) ==
  /\ a.cls # "nan"
  /\ b.cls # "nan"
  /\ \/ Rank(a) > Rank(b)
     \/ Rank(a) = Rank(b) /\ a.v > b.v

\* ----------------------------------------------------------------- state
VARIABLES
  m_counts,          \* cumulative counts, or the current simulated ones
  m_baselines,       \* cumulative baselines (numerators over BaseDen)
  m_total_count,     \* the grand total of the observed counts
  m_store_everything,
  store,             \* the member pointer: which storage function is used
  m_zone_numbers, m_durations, m_scores, m_relrisk_in, m_relrisk_out,
  sim_zone_numbers, sim_durations, sim_scores, sim_relrisk_in, sim_relrisk_out,
  m_mcsim_index,     \* the current simulation round
  pc,                \* "scan", "simulate", "rescan" or "done"
  i                  \* storage index of the next candidate of the pass

obs == << m_zone_numbers, m_durations, m_scores, m_relrisk_in, m_relrisk_out >>
sim == << sim_zone_numbers, sim_durations, sim_scores, sim_relrisk_in,
          sim_relrisk_out >>
tables == << m_counts, m_baselines, m_total_count, m_store_everything >>
vars == << tables, store, obs, sim, m_mcsim_index, pc, i >>

\* --------------------------------------------------------------- scoring
\* The candidate that the iteration engine hands over at storage index k:
\* zones in catalog order, and for each zone the durations in order.
zone_of(k) == k \div m_max_dur
duration_of(k) == k % m_max_dur

\* A plausible slip: >= where the code has >, so that a zone covering the
\* whole total divides 0 by 0.
risk_out_ge(total, C, B) ==
  IF total * BaseDen >= B
  THEN udiv(usub(total, C), total * BaseDen - B)
  ELSE RatOne

\* risk_out of calculate; B is the numerator of the aggregated baseline.
risk_out_of(total, C, B) ==
  IF total * BaseDen > B
  THEN udiv(usub(total, C), total * BaseDen - B)
  ELSE RatOne

\* A plausible slip: >= where the code has >.
score_ge(total, C, B, risk_in, risk_out) ==
  IF C * BaseDen >= B
  THEN dadd(umul(usub(C, 0), log(risk_in)),
            umul(usub(total, C), log(risk_out)))
  ELSE NegInf

\* score of calculate.
score_of(total, C, B, risk_in, risk_out) ==
  IF C * BaseDen > B
  THEN dadd(umul(usub(C, 0), log(risk_in)),
            umul(usub(total, C), log(risk_out)))
  ELSE NegInf

\* What calculate hands to the storage function for the candidate
\* (zone_nr, duration), current_rows being the rows 0 .. duration.
result(counts, baselines, total, zone_nr, duration) ==
  LET current_zone == Zones[zone_nr + 1]
      row_idx == duration
      C == accu_submat(counts, row_idx, current_zone)
      B == accu_submat(baselines, row_idx, current_zone)
      risk_in == ddiv(C, B)
      risk_out == risk_out_of(total, C, B)
  IN [score |-> score_of(total, C, B, risk_in, risk_out),
      q_in |-> risk_in,
      q_out |-> risk_out,
      zone_nr |-> zone_nr + 1,
      duration |-> duration + 1]

\* ------------------------------------------------------ storage functions
\* A plausible slip: the two relative risks are written to each other's column.
store_all_swapped(storage_index, score, q_in, q_out, zone_nr, duration) ==
  /\ m_scores' = [m_scores EXCEPT ![storage_index] = score]
  /\ m_relrisk_in' = [m_relrisk_in EXCEPT ![storage_index] = q_out]
  /\ m_relrisk_out' = [m_relrisk_out EXCEPT ![storage_index] = q_in]
  /\ m_zone_numbers' = [m_zone_numbers EXCEPT ![storage_index] = zone_nr]
  /\ m_durations' = [m_durations EXCEPT ![storage_index] = duration]
  /\ UNCHANGED sim

store_all(storage_index, score, q_in, q_out, zone_nr, duration) ==
  /\ m_scores' = [m_scores EXCEPT ![storage_index] = score]
  /\ m_relrisk_in' = [m_relrisk_in EXCEPT ![storage_index] = q_in]
  /\ m_relrisk_out' = [m_relrisk_out EXCEPT ![storage_index] = q_out]
  /\ m_zone_numbers' = [m_zone_numbers EXCEPT ![storage_index] = zone_nr]
  /\ m_durations' = [m_durations EXCEPT ![storage_index] = duration]
  /\ UNCHANGED sim

\* A plausible slip: >= where the code has >.
store_max_ge(storage_index, score, q_in, q_out, zone_nr, duration) ==
  /\ IF dge(score, m_scores[0])
     THEN /\ m_scores' = [m_scores EXCEPT ![0] = score]
          /\ m_relrisk_in' = [m_relrisk_in EXCEPT ![0] = q_in]
          /\ m_relrisk_out' = [m_relrisk_out EXCEPT ![0] = q_out]
          /\ m_zone_numbers' = [m_zone_numbers EXCEPT ![0] = zone_nr]
          /\ m_durations' = [m_durations EXCEPT ![0] = duration]
     ELSE UNCHANGED obs
  /\ UNCHANGED sim

store_max(storage_index, score, q_in, q_out, zone_nr, duration) ==
  /\ IF dgt(score, m_scores[0])
     THEN /\ m_scores' = [m_scores EXCEPT ![0] = score]
          /\ m_relrisk_in' = [m_relrisk_in EXCEPT ![0] = q_in]
          /\ m_relrisk_out' = [m_relrisk_out EXCEPT ![0] = q_out]
          /\ m_zone_numbers' = [m_zone_numbers EXCEPT ![0] = zone_nr]
          /\ m_durations' = [m_durations EXCEPT ![0] = duration]
     ELSE UNCHANGED obs
  /\ UNCHANGED sim

\* A plausible slip: slot 0, as in store_max, instead of the current round.
store_sim_slot0(storage_index, score, q_in, q_out, zone_nr, duration) ==
  /\ IF dgt(score, sim_scores[0])
     THEN /\ sim_scores' = [sim_scores EXCEPT ![0] = score]
          /\ sim_relrisk_in' = [sim_relrisk_in EXCEPT ![0] = q_in]
          /\ sim_relrisk_out' = [sim_relrisk_out EXCEPT ![0] = q_out]
          /\ sim_zone_numbers' = [sim_zone_numbers EXCEPT ![0] = zone_nr]
          /\ sim_durations' = [sim_durations EXCEPT ![0] = duration]
     ELSE UNCHANGED sim
  /\ UNCHANGED obs

\* A plausible slip: the comparison is left out.
store_sim_always(storage_index, score, q_in, q_out, zone_nr, duration) ==
  /\ sim_scores' = [sim_scores EXCEPT ![m_mcsim_index] = score]
  /\ sim_relrisk_in' = [sim_relrisk_in EXCEPT ![m_mcsim_index] = q_in]
  /\ sim_relrisk_out' = [sim_relrisk_out EXCEPT ![m_mcsim_index] = q_out]
  /\ sim_zone_numbers' = [sim_zone_numbers EXCEPT ![m_mcsim_index] = zone_nr]
  /\ sim_durations' = [sim_durations EXCEPT ![m_mcsim_index] = duration]
  /\ UNCHANGED obs

store_sim(storage_index, score, q_in, q_out, zone_nr, duration) ==
  /\ IF dgt(score, sim_scores[m_mcsim_index])
     THEN /\ sim_scores' = [sim_scores EXCEPT ![m_mcsim_index] = score]
          /\ sim_relrisk_in' = [sim_relrisk_in EXCEPT ![m_mcsim_index] = q_in]
          /\ sim_relrisk_out' =
                [sim_relrisk_out EXCEPT ![m_mcsim_index] = q_out]
          /\ sim_zone_numbers' =
                [sim_zone_numbers EXCEPT ![m_mcsim_index] = zone_nr]
          /\ sim_durations' = [sim_durations EXCEPT ![m_mcsim_index] = duration]
     ELSE UNCHANGED sim
  /\ UNCHANGED obs

\* calculate: score the candidate and hand it to the storage function that
\* the member pointer names.
calculate(storage_index, zone_nr, duration) ==
  LET r == result(m_counts, m_baselines, m_total_count, zone_nr, duration)
  IN CASE store = "store_all" ->
            store_all(storage_index, r.score, r.q_in, r.q_out, r.zone_nr,
                      r.duration)
       [] store = "store_max" ->
            store_max(storage_index, r.score, r.q_in, r.q_out, r.zone_nr,
                      r.duration)
       [] OTHER ->
            store_sim(storage_index, r.score, r.q_in, r.q_out, r.zone_nr,
                      r.duration)

\* A plausible slip: the member pointer is left as it is.
set_sim_store_fun_noop == store

\* set_sim_store_fun: the new value of the member pointer.
set_sim_store_fun == "store_sim"

\* ------------------------------------------------------------ life cycle
CountTables == [Rows -> [Locations -> 0 .. MaxCount]]
\* The expected count of a location is the same at every time step.
BaselineTables ==
  {[r \in Rows |-> b] : b \in [Locations -> BaseNums]}

\* What a read of a vector element finds before anything was written to it:
\* set_size leaves the memory as it is.
\* Either the memory happens to be zeroed or it holds stale bits.
UninitMemory == {"zeroed", "stale"}
uninit_uword(g) == IF g = "zeroed" THEN 0 ELSE 1
uninit_rat(g) == IF g = "zeroed" THEN RatZero ELSE RatNaN
uninit_score(g) == IF g = "zeroed" THEN Fin(0) ELSE NaN

\* The base class sizes the observed sequences: one slot per candidate in
\* store-everything mode, a single slot otherwise.
out_length(store_everything) == IF store_everything THEN NumCand ELSE 1

\* The base class starts every running maximum at minus infinity.
initial_scores(store_everything, g) ==
  [k \in 0 .. out_length(store_everything) - 1 |->
     IF store_everything THEN uninit_score(g) ELSE NegInf]
initial_sim_scores == [k \in 0 .. m_num_mcsim - 1 |-> NegInf]

\* The constructors (USTscan's, then PBPOIabstract's).
Init ==
  \E counts \in CountTables, baselines \in BaselineTables,
     store_everything \in BOOLEAN, g \in UninitMemory :
    LET m_out_length == out_length(store_everything) IN
    /\ m_total_count = total_count(counts)
    /\ m_counts = cumsum(counts)
    /\ m_baselines = cumsum(baselines)
    /\ m_store_everything = store_everything
    /\ store = IF store_everything THEN "store_all" ELSE "store_max"
    /\ m_zone_numbers = [k \in 0 .. m_out_length - 1 |-> uninit_uword(g)]
    /\ m_durations = [k \in 0 .. m_out_length - 1 |-> uninit_uword(g)]
    /\ m_scores = initial_scores(store_everything, g)
    /\ m_relrisk_in = [k \in 0 .. m_out_length - 1 |-> uninit_rat(g)]
    /\ m_relrisk_out = [k \in 0 .. m_out_length - 1 |-> uninit_rat(g)]
    /\ sim_zone_numbers = [k \in 0 .. m_num_mcsim - 1 |-> uninit_uword(g)]
    /\ sim_durations = [k \in 0 .. m_num_mcsim - 1 |-> uninit_uword(g)]
    /\ sim_scores = initial_sim_scores
    /\ sim_relrisk_in = [k \in 0 .. m_num_mcsim - 1 |-> uninit_rat(g)]
    /\ sim_relrisk_out = [k \in 0 .. m_num_mcsim - 1 |-> uninit_rat(g)]
    /\ m_mcsim_index = 0
    /\ pc = "scan"
    /\ i = 0

\* One step of the observed pass: the next candidate goes through calculate.
ScanStep ==
  /\ pc = "scan"
  /\ i < NumCand
  /\ calculate(i, zone_of(i), duration_of(i))
  /\ i' = i + 1
  /\ UNCHANGED << tables, store, m_mcsim_index, pc >>

\* The simulation starts once the observed pass is over: run_mcsim calls
\* set_sim_store_fun.
StartSim ==
  /\ pc = "scan"
  /\ i = NumCand
  /\ store' = set_sim_store_fun
  /\ pc' = "simulate"
  /\ UNCHANGED << tables, obs, sim, m_mcsim_index, i >>

\* simulate_counts: a fresh raw table of the same shape and the same total
\* replaces the counts, cumulated as in the constructor.
SimulateCounts ==
  /\ pc = "simulate"
  /\ m_mcsim_index < m_num_mcsim
  /\ \E counts \in CountTables :
       /\ total_count(counts) = m_total_count
       /\ m_counts' = cumsum(counts)
  /\ pc' = "rescan"
  /\ i' = 0
  /\ UNCHANGED << m_baselines, m_total_count, m_store_everything, store, obs,
                  sim, m_mcsim_index >>

\* One step of the pass over the simulated counts.
RescanStep ==
  /\ pc = "rescan"
  /\ i < NumCand
  /\ calculate(i, zone_of(i), duration_of(i))
  /\ i' = i + 1
  /\ UNCHANGED << tables, store, m_mcsim_index, pc >>

\* The round is over: ++m_mcsim_index.
EndRound ==
  /\ pc = "rescan"
  /\ i = NumCand
  /\ m_mcsim_index' = m_mcsim_index + 1
  /\ pc' = "simulate"
  /\ UNCHANGED << tables, store, obs, sim, i >>

\* All rounds are over.
Finish ==
  /\ pc = "simulate"
  /\ m_mcsim_index = m_num_mcsim
  /\ pc' = "done"
  /\ UNCHANGED << tables, store, obs, sim, m_mcsim_index, i >>

Next ==
  \/ ScanStep
  \/ StartSim
  \/ SimulateCounts
  \/ RescanStep
  \/ EndRound
  \/ Finish

Spec == Init /\ [][Next]_vars

\* -------------------------------------------------------------- retrieval
\* get_scan: the observed table, one row per slot.
get_scan ==
  [k \in DOMAIN m_scores |->
     [zone |-> m_zone_numbers[k], duration |-> m_durations[k],
      score |-> m_scores[k], relrisk_in |-> m_relrisk_in[k],
      relrisk_out |-> m_relrisk_out[k]]]

\* get_mcsim: the simulation table, one row per round.
get_mcsim ==
  [k \in DOMAIN sim_scores |->
     [zone |-> sim_zone_numbers[k], duration |-> sim_durations[k],
      score |-> sim_scores[k], relrisk_in |-> sim_relrisk_in[k],
      relrisk_out |-> sim_relrisk_out[k]]]

\* ------------------------------------------------- candidates of the pass
\* The candidate of storage index k under the tables as they are now.
cand(k) ==
  result(m_counts, m_baselines, m_total_count, zone_of(k), duration_of(k))

\* Its aggregated count C and the numerator of its aggregated baseline B.
C_of(k) == accu_submat(m_counts, duration_of(k), Zones[zone_of(k) + 1])
B_of(k) == accu_submat(m_baselines, duration_of(k), Zones[zone_of(k) + 1])

\* C > B: the candidate shows an excess.
excess(k) == C_of(k) * BaseDen > B_of(k)

\* The table row that holds exactly what calculate computed for a candidate.
row_of(r) ==
  [zone |-> r.zone_nr, duration |-> r.duration, score |-> r.score,
   relrisk_in |-> r.q_in, relrisk_out |-> r.q_out]

\* The scores of the first n candidates of the pass.
scores(n) == [k \in 0 .. n - 1 |-> cand(k).score]

\* Among the scores sc, that of k is the greatest and k is the earliest to
\* have it.
is_max(sc, k) ==
  /\ sc[k].cls # "nan"
  /\ \A j \in DOMAIN sc : ~dgt(sc[j], sc[k])
  /\ \A j \in 0 .. k - 1 : sc[j] # sc[k]

finite(x) == x.cls \in {"fin", "huge"}

\* ------------------------------------------------------------------ C1
\* C1 as claimed: in max-only mode, once a candidate has been processed,
\* slot 0 holds the earliest candidate with the greatest score so far, all
\* five fields being that candidate's.
C1_RetainMaxFromFirstCandidate ==
  (store = "store_max" /\ pc = "scan") =>
    LET sc == scores(i) IN
    \A k \in 0 .. i - 1 : is_max(sc, k) => get_scan[0] = row_of(cand(k))

\* C1 as amended: in max-only mode, once a candidate whose score exceeds
\* minus infinity has been processed, slot 0 holds the earliest candidate
\* with the greatest score so far, all five fields being that candidate's;
\* until then the score of slot 0 is still minus infinity.
C1_RetainMax ==
  (store = "store_max" /\ pc = "scan") =>
    LET sc == scores(i) IN
    /\ \A k \in 0 .. i - 1 :
         (is_max(sc, k) /\ sc[k] # NegInf) => get_scan[0] = row_of(cand(k))
    /\ (\A k \in 0 .. i - 1 : ~dgt(sc[k], NegInf)) => m_scores[0] = NegInf

\* The pass is over, two candidates of different zones tie on the greatest
\* score, and slot 0 holds the earlier one.
C1_Witness ==
  /\ store = "store_max"
  /\ pc = "scan"
  /\ i = NumCand
  /\ \E k \in 0 .. i - 1, j \in 0 .. i - 1 :
       /\ k < j
       /\ is_max(scores(i), k)
       /\ cand(k).score.cls = "fin"
       /\ cand(j).score = cand(k).score
       /\ cand(j).zone_nr # cand(k).zone_nr
       /\ m_zone_numbers[0] = cand(k).zone_nr

\* ------------------------------------------------------------------ C2
\* C2: a candidate with C <= B is scored minus infinity, and when it goes
\* through calculate in max-only mode or in a simulation round, no slot is
\* written: it is never the retained maximum, wherever it comes in the pass.
C2_NoExcessNeverRetained ==
  [][(pc \in {"scan", "rescan"} /\ i < NumCand /\ ~excess(i)) =>
       /\ cand(i).score = NegInf
       /\ store # "store_all" => (obs' = obs /\ sim' = sim)]_vars

\* The max-only pass is over; a candidate without excess came before and
\* another after a candidate with excess, and slot 0 holds one with excess.
C2_Witness ==
  /\ store = "store_max"
  /\ pc = "scan"
  /\ i = NumCand
  /\ \E j \in 0 .. i - 1, k \in 0 .. i - 1, l \in 0 .. i - 1 :
       /\ j < k
       /\ k < l
       /\ ~excess(j)
       /\ ~excess(l)
       /\ excess(k)
       /\ get_scan[0] = row_of(cand(k))

\* ------------------------------------------------------------------ C3
\* C3 as claimed: every candidate with C > B has a finite score; read off
\* the rows that store-everything mode has written.
C3_ExcessScoreFinite ==
  (store = "store_all" /\ pc = "scan") =>
    \A k \in 0 .. i - 1 : excess(k) => finite(m_scores[k])

\* ------------------------------------------------------------------ C4
\* In store-everything mode the observed table has one row per candidate and
\* every row written so far holds what calculate computed for the candidate
\* of that storage index.
C4_Rows ==
  (m_store_everything /\ pc = "scan") =>
    /\ Cardinality(DOMAIN get_scan) = NumCand
    /\ \A k \in 0 .. i - 1 : get_scan[k] = row_of(cand(k))

\* C4: in store-everything mode the observed table has one row per
\* candidate, every row written so far holds what calculate computed for
\* the candidate of that storage index, and a step of the pass changes no
\* row but the one of its storage index.
C4_RetainAll ==
  [][/\ C4_Rows
     /\ (store = "store_all" /\ pc = "scan") =>
          \A j \in DOMAIN get_scan : j # i => get_scan'[j] = get_scan[j]]_vars

\* The store-everything pass is over and some row has a finite score and
\* two different relative risks.
C4_Witness ==
  /\ m_store_everything
  /\ pc = "scan"
  /\ i = NumCand
  /\ \E k \in DOMAIN get_scan :
       /\ get_scan[k].score.cls = "fin"
       /\ get_scan[k].relrisk_in # get_scan[k].relrisk_out

\* ------------------------------------------------------------------ C5
\* When the pass of a round is over, the row of that round is the earliest
\* candidate with the greatest score among those scored in the round (its
\* score is still minus infinity if none exceeded minus infinity).
C5_RoundMax ==
  (pc = "rescan" /\ i = NumCand) =>
    LET sc == scores(i) IN
    /\ \A k \in 0 .. i - 1 :
         (is_max(sc, k) /\ sc[k] # NegInf) =>
           get_mcsim[m_mcsim_index] = row_of(cand(k))
    /\ (\A k \in 0 .. i - 1 : ~dgt(sc[k], NegInf)) =>
         sim_scores[m_mcsim_index] = NegInf

\* C5: no step changes the simulation row of a round other than the current
\* one, and when the pass of a round is over the row of that round is the
\* earliest candidate with the greatest score among those scored in the
\* round (its score is still minus infinity if none exceeded minus infinity).
C5_RetainSimMax ==
  [][/\ C5_RoundMax
     /\ \A r \in DOMAIN get_mcsim :
          r # m_mcsim_index => get_mcsim'[r] = get_mcsim[r]]_vars

\* All rounds are over and two rounds kept different finite maxima.
C5_Witness ==
  /\ pc = "done"
  /\ sim_scores[0].cls = "fin"
  /\ sim_scores[1].cls = "fin"
  /\ get_mcsim[0] # get_mcsim[1]

\* ------------------------------------------------------------------ C6
\* C6: the stored relRiskOut of a candidate is the number q with
\* q * (totalCount - B) = totalCount - C when totalCount > B, and is 1
\* otherwise; it is never the outcome of a division by zero.
C6_RelRiskOut ==
  (store = "store_all" /\ pc = "scan") =>
    \A k \in 0 .. i - 1 :
      LET q == m_relrisk_out[k] IN
      /\ q.cls = "fin"
      /\ IF m_total_count * BaseDen > B_of(k)
         THEN q.n * (m_total_count * BaseDen - B_of(k)) =
                q.d * (m_total_count - C_of(k)) * BaseDen
         ELSE q.n = 1 /\ q.d = 1

\* Rows were written both for a candidate with totalCount == B and for one
\* with totalCount > B and a relRiskOut other than 1.
C6_Witness ==
  /\ store = "store_all"
  /\ pc = "scan"
  /\ \E k \in 0 .. i - 1, j \in 0 .. i - 1 :
       /\ m_total_count * BaseDen = B_of(k)
       /\ m_relrisk_out[k] = RatOne
       /\ m_total_count * BaseDen > B_of(j)
       /\ m_relrisk_out[j] # RatOne

\* ------------------------------------------------------------------ C7
\* C7: the simulation table has num_mcsim rows, and the score of every row
\* is finite or minus infinity at every moment.
C7_SimTableRows ==
  /\ Cardinality(DOMAIN get_mcsim) = m_num_mcsim
  /\ \A r \in DOMAIN get_mcsim :
       finite(get_mcsim[r].score) \/ get_mcsim[r].score = NegInf

\* The last round is over: it scored a candidate as NaN, an earlier round
\* kept minus infinity and this one a finite maximum.
C7_Witness ==
  /\ pc = "rescan"
  /\ i = NumCand
  /\ m_mcsim_index = m_num_mcsim - 1
  /\ \E k \in 0 .. NumCand - 1 : cand(k).score = NaN
  /\ sim_scores[0] = NegInf
  /\ sim_scores[m_mcsim_index].cls = "fin"

\* ------------------------------------------------------------------ C8
\* The storage function in use: the one chosen from store_everything at
\* construction during the observed pass, store_sim afterwards.
C8_Strategy ==
  store = IF pc # "scan" THEN "store_sim"
          ELSE IF m_store_everything THEN "store_all" ELSE "store_max"

\* C8: during the observed pass the storage function is the one chosen from
\* store_everything at construction; once the simulation has begun it is
\* store_sim for good, the observed pass never resumes, and no step changes
\* the observed result sequences.
C8_StrategySwitch ==
  [][/\ C8_Strategy
     /\ C8_Strategy'
     /\ pc # "scan" => (pc' # "scan" /\ obs' = obs)]_vars

\* All rounds are over, the observed maximum and a simulated one are finite.
C8_Witness ==
  /\ pc = "done"
  /\ store = "store_sim"
  /\ m_scores[0].cls = "fin"
  /\ \E r \in DOMAIN sim_scores : sim_scores[r].cls = "fin"

C10_NoWrap ==
  pc = "scan" =>
    \A Z \in SUBSET Locations, r \in Rows :
      LET C == accu_submat(m_counts, r, Z)
          B == accu_submat(m_baselines, r, Z)
      IN Z # {} =>
           /\ C <= m_total_count
           /\ ~usub(m_total_count, C).wrap
           /\ risk_out_of(m_total_count, C, B).cls = "fin"

\* A candidate whose count is the whole, positive, total has been scored,
\* and so has one whose count is smaller.
C10_Witness ==
  /\ pc = "scan"
  /\ m_total_count > 0
  /\ \E k \in 0 .. i - 1, j \in 0 .. i - 1 :
       /\ C_of(k) = m_total_count
       /\ C_of(j) < m_total_count

====
